---- MODULE Spec2Model ----
(***************************************************************************)
(* Model of crostini/setup-ubuntu-crostini.py: the step registry, the      *)
(* detectors, the step implementations and main(), the step sequencer.     *)
(*                                                                         *)
(* The system (filesystem, package database, apt key ring) is the record   *)
(* sys.  An external command run through run() either exits 0 or exits     *)
(* non-zero; which of the two is the environment's choice.  With           *)
(* check=True a non-zero exit raises, with check=False it is ignored.      *)
(***************************************************************************)
EXTENDS Integers, Sequences, FiniteSets, TLC

\* Number of invocations of main() that are explored.
MaxRuns == 2

(***************************************************************************)
(* CONFIG and the registry                                                 *)
(***************************************************************************)
\* The two Ubuntu archive keys of gpg_keys_present / fix_gpg_keys.
required == {"7638D0442B90D010", "04EE7237B7D453EC"}

\* STEPS after the ten step(...) registrations: name and phase tag, in
\* registration order.  A step is referred to by its position in STEPS.
STEPS ==
  << [name |-> "Fix GPG Keys",               pre_reboot |-> TRUE],
     [name |-> "Capture Default Groups",     pre_reboot |-> TRUE],
     [name |-> "Remove Default ubuntu User", pre_reboot |-> TRUE],
     [name |-> "Add Crostini Package Repo",  pre_reboot |-> TRUE],
     [name |-> "Install binutils",           pre_reboot |-> TRUE],
     [name |-> "Patch cros-ui-config",       pre_reboot |-> TRUE],
     [name |-> "Install Crostini Tools",     pre_reboot |-> TRUE],
     [name |-> "Install Common Tools",       pre_reboot |-> TRUE],
     [name |-> "Apply User Groups",          pre_reboot |-> FALSE],
     [name |-> "Set Hostname",               pre_reboot |-> FALSE] >>

\* The step with the given name (names are unique in this registry).
StepNamed(n) == CHOOSE k \in 1..Len(STEPS) : STEPS[k].name = n

(***************************************************************************)
(* System state                                                            *)
(*   keys     Ubuntu archive keys listed by apt-key list                   *)
(*   script   ~/update-groups exists                                       *)
(*   home     /home/ubuntu exists                                          *)
(*   sudoers  /etc/sudoers.d/90-cloud-init-users: absent, holds a line     *)
(*            starting with "ubuntu", or holds no such line                *)
(*   repo     /etc/apt/sources.list.d/cros.list: absent, the deb line of   *)
(*            the cros-packages repository, or other content               *)
(*   crosKey  the cros key fingerprint is listed by apt-key list           *)
(*   binutils, guest, icons, common   packages known to dpkg -s            *)
(*   deb      cros-ui-config_fixed.deb exists                              *)
(***************************************************************************)
SysStates ==
  [ keys : SUBSET required, script : BOOLEAN, home : BOOLEAN,
    sudoers : {"absent", "ubuntu", "clean"},
    repo : {"absent", "cros", "other"}, crosKey : BOOLEAN,
    binutils : BOOLEAN, deb : BOOLEAN, guest : BOOLEAN, icons : BOOLEAN,
    common : BOOLEAN ]

(***************************************************************************)
(* DETECTORS.  Each returns "T", "F", or "raise" (an exception escapes).   *)
(***************************************************************************)
B(b) == IF b THEN "T" ELSE "F"

gpg_keys_present(s) == B(required \subseteq s.keys)

\* Variant of groups_script_exists with the test inverted.
groups_script_exists_inverted(s) == B(~s.script)

groups_script_exists(s) == B(s.script)

\* not exists(/home/ubuntu) and not any(line starts with "ubuntu" in
\* read_text(sudoers)): read_text raises when the file does not exist, and
\* is reached only when /home/ubuntu is absent.
default_user_removed(s) ==
  IF s.home THEN "F"
  ELSE IF s.sudoers = "absent" THEN "raise"
  ELSE B(s.sudoers # "ubuntu")

cros_repo_present(s) == B(s.repo = "cros")

cros_key_present(s) == B(s.crosKey)

binutils_installed(s) == B(s.binutils)

cros_ui_config_fixed(s) == B(s.deb)

crostini_tools_installed(s) == B(s.guest /\ s.icons)

common_tools_installed(s) == B(s.common)

\* The detector lambda registered for step k, applied to system state s.
detector(k, s) ==
  CASE k = 1 -> gpg_keys_present(s)
    [] k = 2 -> groups_script_exists(s)
    [] k = 3 -> default_user_removed(s)
    [] k = 4 -> B(cros_repo_present(s) = "T" /\ cros_key_present(s) = "T")
    [] k = 5 -> binutils_installed(s)
    [] k = 6 -> cros_ui_config_fixed(s)
    [] k = 7 -> crostini_tools_installed(s)
    [] k = 8 -> common_tools_installed(s)
    [] k = 9 -> B(groups_script_exists(s) # "T")
    [] k = 10 -> "F"

(***************************************************************************)
(* STEP IMPLEMENTATIONS.  Each operator gives the set of possible outcomes *)
(* of the function on system state s: the resulting system state, whether  *)
(* an exception left the function (raised) and whether one of its external *)
(* commands exited non-zero (failed).                                      *)
(***************************************************************************)
Outcome(s, raised, failed) == [s |-> s, raised |-> raised, failed |-> failed]

\* Every command is run with check=False: nothing raises.  got is the set
\* of keys whose recv-keys command succeeded, upd the result of apt update.
fix_gpg_keys(s) ==
  { Outcome([s EXCEPT !.keys = @ \cup got], FALSE, got # required \/ ~upd) :
      got \in SUBSET required, upd \in BOOLEAN }

\* Returns at once when the script exists; a failure of `groups` is caught
\* and a default list is written instead.
capture_groups(s) ==
  IF s.script THEN { Outcome(s, FALSE, FALSE) }
  ELSE { Outcome([s EXCEPT !.script = TRUE], FALSE, ~grp) : grp \in BOOLEAN }

\* killall and userdel run with check=False; userdel -r removes /home/ubuntu
\* when it succeeds.  An existing sudoers file is rewritten without its
\* lines starting with "ubuntu"; a missing one is not created.
remove_default_user(s) ==
  { Outcome([s EXCEPT !.home = IF del THEN FALSE ELSE @,
                      !.sudoers = IF @ = "absent" THEN "absent" ELSE "clean"],
            FALSE, ~kill \/ ~del) :
      kill \in BOOLEAN, del \in BOOLEAN }

\* cros.list is written first, then the key is fetched with check=True.
add_cros_repo(s) ==
  { Outcome([s EXCEPT !.repo = "cros", !.crosKey = TRUE], FALSE, FALSE),
    Outcome([s EXCEPT !.repo = "cros"], TRUE, TRUE) }

\* Variant of install_binutils that runs apt with check=False.
install_binutils_unchecked(s) ==
  { Outcome([s EXCEPT !.binutils = TRUE], FALSE, FALSE),
    Outcome(s, FALSE, TRUE) }

install_binutils(s) ==
  { Outcome([s EXCEPT !.binutils = TRUE], FALSE, FALSE),
    Outcome(s, TRUE, TRUE) }

\* Returns at once when the fixed .deb exists.  Otherwise every command is
\* run with check=True, and a missing downloaded package or a missing
\* ./etc/gtk-3.0/settings.ini raises RuntimeError without any command having
\* failed; the final mv creates the fixed .deb.
patch_cros_ui_config(s) ==
  IF s.deb THEN { Outcome(s, FALSE, FALSE) }
  ELSE { Outcome([s EXCEPT !.deb = TRUE], FALSE, FALSE),
         Outcome(s, TRUE, TRUE),
         Outcome(s, TRUE, FALSE) }

\* Two apt installs with check=True, then the fixed .deb is unlinked
\* (missing_ok=True).
install_crostini_tools(s) ==
  { Outcome([s EXCEPT !.guest = TRUE, !.icons = TRUE, !.deb = FALSE],
            FALSE, FALSE),
    Outcome([s EXCEPT !.guest = TRUE], TRUE, TRUE),
    Outcome(s, TRUE, TRUE) }

install_common_tools(s) ==
  { Outcome([s EXCEPT !.common = TRUE], FALSE, FALSE),
    Outcome(s, TRUE, TRUE) }

\* RuntimeError when the script is missing; otherwise the script is run
\* with check=True and then unlinked.
apply_user_groups(s) ==
  IF ~s.script THEN { Outcome(s, TRUE, FALSE) }
  ELSE { Outcome([s EXCEPT !.script = FALSE], FALSE, FALSE),
         Outcome(s, TRUE, TRUE) }

\* hostnamectl runs with check=True; the hostname is seen by no detector.
set_hostname(s) ==
  { Outcome(s, FALSE, FALSE), Outcome(s, TRUE, TRUE) }

\* s["func"]() of step k on system state s.
func(k, s) ==
  CASE k = 1 -> fix_gpg_keys(s)
    [] k = 2 -> capture_groups(s)
    [] k = 3 -> remove_default_user(s)
    [] k = 4 -> add_cros_repo(s)
    [] k = 5 -> install_binutils(s)
    [] k = 6 -> patch_cros_ui_config(s)
    [] k = 7 -> install_crostini_tools(s)
    [] k = 8 -> install_common_tools(s)
    [] k = 9 -> apply_user_groups(s)
    [] k = 10 -> set_hostname(s)

(***************************************************************************)
(* MAIN                                                                    *)
(***************************************************************************)
VARIABLES
  sys,        \* the system the script inspects and changes
  pc,         \* "idle" (never run), "proceed" (at confirm("Proceed?")),
              \* "exec" (in the loop, before pending[i]), "continue" (at
              \* confirm("Continue anyway?")), "exited"
  euid0,      \* os.geteuid() == 0 in the current invocation
  pre_done, post_done, pending, phase,   \* main's locals
  i,          \* the loop index of the execution loop
  out,        \* the status lines printed by the current invocation
  invoked,    \* history: the steps whose function was called, in order
  last,       \* the report printed for the last executed step, and
              \* (history) whether one of its commands exited non-zero
  exitCode,   \* the exit code of the process, once pc = "exited"
  declinedAt, \* history: the prompt the operator answered no to, or ""
  evals,      \* history: steps whose detector the invocation has evaluated
  dets,       \* what each detector returns when asked by the current
              \* invocation (before the first one: on the initial system)
  sys0,       \* history: sys when the current invocation started
  runs,       \* history: number of invocations started
  prev,       \* history: phase, pending list and outcome of the invocation
              \* before the current one
  clean       \* history: the first invocation started with every
              \* pre-reboot detector false, and so far every invocation ran
              \* as root, was confirmed, and every command succeeded

vars == << sys, pc, euid0, pre_done, post_done, pending, phase, i, out, invoked,
           last, exitCode, declinedAt, evals, dets, sys0, runs, prev, clean >>

\* pre_steps / post_steps of main, as positions in STEPS.
pre_steps == SelectSeq([k \in 1..Len(STEPS) |-> k], LAMBDA k : STEPS[k].pre_reboot)

post_steps == SelectSeq([k \in 1..Len(STEPS) |-> k], LAMBDA k : ~STEPS[k].pre_reboot)

\* What each registered detector returns on system state s.
results(s) == [k \in 1..Len(STEPS) |-> detector(k, s)]

\* all(s["detector"]() for s in ks), d[k] being what the detector of step k
\* returns: stops at the first detector that does not return True; val is
\* "T", "F" or "raise", ev the detectors evaluated.
all_detected(ks, d) ==
  LET stop == { n \in 1..Len(ks) : d[ks[n]] # "T" } IN
  IF stop = {}
  THEN [val |-> "T", ev |-> { ks[n] : n \in 1..Len(ks) }]
  ELSE LET n0 == CHOOSE n \in stop : \A m \in stop : n <= m IN
       [val |-> d[ks[n0]], ev |-> { ks[n] : n \in 1..n0 }]

\* Variant of not_detected with the test inverted: keeps the detected steps.
not_detected_inverted(ks, d) ==
  LET bad == { n \in 1..Len(ks) : d[ks[n]] = "raise" } IN
  IF bad = {}
  THEN [val |-> "ok", list |-> SelectSeq(ks, LAMBDA k : d[k] = "T"),
        ev |-> { ks[n] : n \in 1..Len(ks) }]
  ELSE LET n0 == CHOOSE n \in bad : \A m \in bad : n <= m IN
       [val |-> "raise", list |-> << >>, ev |-> { ks[n] : n \in 1..n0 }]

\* [s for s in ks if not s["detector"]()]: evaluates the detectors of ks in
\* order and keeps the steps whose detector returns False; val is "raise"
\* when one of them raises, which ends the evaluation.
not_detected(ks, d) ==
  LET bad == { n \in 1..Len(ks) : d[ks[n]] = "raise" } IN
  IF bad = {}
  THEN [val |-> "ok", list |-> SelectSeq(ks, LAMBDA k : d[k] = "F"),
        ev |-> { ks[n] : n \in 1..Len(ks) }]
  ELSE LET n0 == CHOOSE n \in bad : \A m \in bad : n <= m IN
       [val |-> "raise", list |-> << >>, ev |-> { ks[n] : n \in 1..n0 }]

Frame(p, code, pre, post, pend, ph, o, ev) ==
  [pc |-> p, exitCode |-> code, pre_done |-> pre, post_done |-> post,
   pending |-> pend, phase |-> ph, out |-> o, evals |-> ev]

\* Variant of main_detect that evaluates the post-reboot detectors only when
\* every pre-reboot detector has returned True.
main_detect_lazy(d) ==
  LET pre == all_detected(pre_steps, d) IN
  IF pre.val = "raise"
  THEN Frame("exited", 1, FALSE, FALSE, << >>, "", << "Traceback" >>, pre.ev)
  ELSE
    LET post == IF pre.val = "T" THEN all_detected(post_steps, d)
                ELSE [val |-> "F", ev |-> {}]
        ev2  == pre.ev \cup post.ev IN
    IF post.val = "raise"
    THEN Frame("exited", 1, pre.val = "T", FALSE, << >>, "",
               << "Traceback" >>, ev2)
    ELSE IF pre.val = "T" /\ post.val = "T"
    THEN Frame("exited", 0, TRUE, TRUE, << >>, "",
               << "All steps already completed!" >>, ev2)
    ELSE
      LET pend == IF pre.val # "T" THEN not_detected(pre_steps, d)
                  ELSE not_detected(post_steps, d)
          ph   == IF pre.val # "T" THEN "PRE-REBOOT" ELSE "POST-REBOOT" IN
      IF pend.val = "raise"
      THEN Frame("exited", 1, pre.val = "T", post.val = "T", << >>, "",
                 << "Traceback" >>, ev2 \cup pend.ev)
      ELSE Frame("proceed", 0, pre.val = "T", post.val = "T", pend.list, ph,
                 << ph \o " STEPS TO EXECUTE:" >>, ev2 \cup pend.ev)

\* Variant of main_detect without the early return when both phases are
\* done: it goes on to the pending list of the post-reboot phase.
main_detect_no_return(d) ==
  LET pre == all_detected(pre_steps, d) IN
  IF pre.val = "raise"
  THEN Frame("exited", 1, FALSE, FALSE, << >>, "", << "Traceback" >>, pre.ev)
  ELSE
    LET post == all_detected(post_steps, d)
        ev2  == pre.ev \cup post.ev IN
    IF post.val = "raise"
    THEN Frame("exited", 1, pre.val = "T", FALSE, << >>, "",
               << "Traceback" >>, ev2)
    ELSE
      LET pend == IF pre.val # "T" THEN not_detected(pre_steps, d)
                  ELSE not_detected(post_steps, d)
          ph   == IF pre.val # "T" THEN "PRE-REBOOT" ELSE "POST-REBOOT" IN
      IF pend.val = "raise"
      THEN Frame("exited", 1, pre.val = "T", post.val = "T", << >>, "",
                 << "Traceback" >>, ev2 \cup pend.ev)
      ELSE Frame("proceed", 0, pre.val = "T", post.val = "T", pend.list, ph,
                 << ph \o " STEPS TO EXECUTE:" >>, ev2 \cup pend.ev)

\* main after the privilege test, up to confirm("Proceed?") or to its exit,
\* d[k] being what the detector of step k returns: the phases are separated, the detectors evaluated, the
\* pending list computed and displayed.  An exception escaping a detector
\* ends the process with a traceback and exit code 1.
main_detect(d) ==
  LET pre == all_detected(pre_steps, d) IN
  IF pre.val = "raise"
  THEN Frame("exited", 1, FALSE, FALSE, << >>, "", << "Traceback" >>, pre.ev)
  ELSE
    LET post == all_detected(post_steps, d)
        ev2  == pre.ev \cup post.ev IN
    IF post.val = "raise"
    THEN Frame("exited", 1, pre.val = "T", FALSE, << >>, "",
               << "Traceback" >>, ev2)
    ELSE IF pre.val = "T" /\ post.val = "T"
    THEN Frame("exited", 0, TRUE, TRUE, << >>, "",
               << "All steps already completed!" >>, ev2)
    ELSE
      LET pend == IF pre.val # "T" THEN not_detected(pre_steps, d)
                  ELSE not_detected(post_steps, d)
          ph   == IF pre.val # "T" THEN "PRE-REBOOT" ELSE "POST-REBOOT" IN
      IF pend.val = "raise"
      THEN Frame("exited", 1, pre.val = "T", post.val = "T", << >>, "",
                 << "Traceback" >>, ev2 \cup pend.ev)
      ELSE Frame("proceed", 0, pre.val = "T", post.val = "T", pend.list, ph,
                 << ph \o " STEPS TO EXECUTE:" >>, ev2 \cup pend.ev)

\* Variant of main_start that tests the effective uid after the detectors
\* have been evaluated.
main_start_late_uid(d, root) ==
  LET f == main_detect(d) IN
  IF root THEN f
  ELSE Frame("exited", 1, FALSE, FALSE, << >>, "",
             << "This script must be run with sudo." >>, f.evals)

\* Variant of main_start that takes a second invocation to be the one after
\* the reboot instead of consulting the pre-reboot detectors.
main_start_marker(d, root) ==
  LET f == main_detect(d)
      pend == not_detected(post_steps, d) IN
  IF ~root
  THEN Frame("exited", 1, FALSE, FALSE, << >>, "",
             << "This script must be run with sudo." >>, {})
  ELSE IF runs >= 1 /\ f.pc = "proceed"
  THEN [f EXCEPT !.phase = "POST-REBOOT", !.pending = pend.list,
                 !.out = << "POST-REBOOT STEPS TO EXECUTE:" >>]
  ELSE f

\* main from its first line to confirm("Proceed?") or to its exit: without
\* effective uid 0 it prints a message and exits with code 1.
main_start(d, root) ==
  IF ~root
  THEN Frame("exited", 1, FALSE, FALSE, << >>, "",
             << "This script must be run with sudo." >>, {})
  ELSE main_detect(d)

\* The guidance printed after the execution loop.
final_banner(pre) ==
  IF ~pre THEN "PRE-REBOOT PHASE FINISHED" ELSE "SETUP COMPLETE"

\* Variant of loop_to that calls a failed step again when the operator chose
\* to continue.
loop_to_retry(j) ==
  IF j <= Len(pending) \/ pc = "continue"
  THEN /\ pc' = "exec"
       /\ i' = IF pc = "continue" THEN i ELSE j
       /\ out' = out
       /\ exitCode' = exitCode
  ELSE /\ pc' = "exited"
       /\ i' = j
       /\ out' = Append(out, IF ~pre_done THEN "PRE-REBOOT PHASE FINISHED"
                              ELSE "SETUP COMPLETE")
       /\ exitCode' = 0

\* The execution loop moves on to position j of pending, or leaves the loop,
\* prints the final guidance and returns.
loop_to(j) ==
  IF j <= Len(pending)
  THEN /\ pc' = "exec"
       /\ i' = j
       /\ out' = out
       /\ exitCode' = exitCode
  ELSE /\ pc' = "exited"
       /\ i' = j
       /\ out' = Append(out, final_banner(pre_done))
       /\ exitCode' = 0

\* Variant of declined without the return: the loop is entered or resumed.
declined_no_return(msg) == loop_to(i + 1)

\* A confirm() answered no: the message is printed and main returns.
declined(msg) ==
  /\ pc' = "exited"
  /\ out' = Append(out, msg)
  /\ exitCode' = 0
  /\ i' = i

TypeOK ==
  /\ sys \in SysStates
  /\ pc \in {"idle", "proceed", "exec", "continue", "exited"}
  /\ euid0 \in BOOLEAN /\ pre_done \in BOOLEAN /\ post_done \in BOOLEAN
  /\ pending \in Seq(1..Len(STEPS))
  /\ phase \in {"", "PRE-REBOOT", "POST-REBOOT"}
  /\ i \in 0..(Len(STEPS) + 1)
  /\ exitCode \in {0, 1}
  /\ evals \subseteq 1..Len(STEPS)
  /\ sys0 \in SysStates
  /\ runs \in 0..MaxRuns
  /\ clean \in BOOLEAN
  /\ declinedAt \in {"", "Proceed?", "Continue anyway?"}

\* A container on which every pre-reboot detector returns False.
Fresh(s) == \A k \in 1..Len(pre_steps) : detector(pre_steps[k], s) = "F"

NoReport == [report |-> "", failed |-> FALSE]

NoPrev == [ran |-> FALSE, phase |-> "", pending |-> << >>, out |-> << >>]

\* The systems the first invocation is started on: any combination of the
\* files, with the keys and packages either all missing or all present.
InitStates ==
  { s \in SysStates :
      /\ s.keys \in {{}, required}
      /\ s.crosKey = (s.keys = required)
      /\ s.binutils = s.crosKey /\ s.guest = s.crosKey
      /\ s.icons = s.crosKey /\ s.common = s.crosKey }

Init ==
  /\ sys \in InitStates
  /\ pc = "idle"
  /\ euid0 = FALSE
  /\ pre_done = FALSE /\ post_done = FALSE
  /\ pending = << >> /\ phase = ""
  /\ i = 0
  /\ out = << >>
  /\ invoked = << >> /\ last = NoReport
  /\ exitCode = 0
  /\ declinedAt = ""
  /\ evals = {}
  /\ dets = results(sys)
  /\ sys0 = sys
  /\ runs = 0
  /\ prev = NoPrev
  /\ clean = Fresh(sys)

\* The script is started: main runs up to confirm("Proceed?") or to its exit.
Invoke ==
  /\ pc \in {"idle", "exited"}
  /\ runs < MaxRuns
  /\ \E root \in BOOLEAN :
       LET f == main_start(results(sys), root) IN
       /\ euid0' = root
       /\ pc' = f.pc
       /\ exitCode' = f.exitCode
       /\ pre_done' = f.pre_done
       /\ post_done' = f.post_done
       /\ pending' = f.pending
       /\ phase' = f.phase
       /\ out' = f.out
       /\ evals' = f.evals
       /\ clean' = (clean /\ root)
  /\ i' = 0
  /\ invoked' = << >>
  /\ last' = NoReport
  /\ declinedAt' = ""
  /\ dets' = results(sys)
  /\ sys0' = sys
  /\ runs' = runs + 1
  /\ prev' = IF pc = "exited"
             THEN [ran |-> TRUE, phase |-> phase, pending |-> pending, out |-> out]
             ELSE NoPrev
  /\ UNCHANGED sys

\* confirm("Proceed?") returns; declining prints "Aborted by user." and
\* returns from main.
Proceed ==
  /\ pc = "proceed"
  /\ \E answer \in BOOLEAN :
       /\ IF ~answer
          THEN declined("Aborted by user.")
          ELSE loop_to(1)
       /\ declinedAt' = IF answer THEN "" ELSE "Proceed?"
       /\ clean' = (clean /\ answer)
  /\ UNCHANGED << sys, euid0, pre_done, post_done, pending, phase, invoked, last,
                  evals, dets, sys0, runs, prev >>

\* One iteration of the execution loop up to its report: the step's function
\* is called and [COMPLETED] or [FAILED] is printed; after [COMPLETED] the
\* loop moves on, after [FAILED] the operator is asked.
RunStep ==
  /\ pc = "exec"
  /\ \E o \in func(pending[i], sys) :
       /\ sys' = o.s
       /\ invoked' = Append(invoked, pending[i])
       /\ last' = [report |-> IF o.raised THEN "[FAILED]" ELSE "[COMPLETED]",
                   failed |-> o.failed]
       /\ IF o.raised
          THEN /\ pc' = "continue"
               /\ UNCHANGED << i, out, exitCode >>
          ELSE loop_to(i + 1)
       /\ clean' = (clean /\ ~o.raised /\ ~o.failed)
  /\ UNCHANGED << euid0, pre_done, post_done, pending, phase, declinedAt,
                  evals, dets, sys0, runs, prev >>

\* confirm("Continue anyway?") returns; declining prints "Setup stopped."
\* and returns from main.
ContinueAnyway ==
  /\ pc = "continue"
  /\ \E answer \in BOOLEAN :
       /\ IF ~answer
          THEN declined("Setup stopped.")
          ELSE loop_to(i + 1)
       /\ declinedAt' = IF answer THEN "" ELSE "Continue anyway?"
       /\ clean' = (clean /\ answer)
  /\ UNCHANGED << sys, euid0, pre_done, post_done, pending, phase, invoked, last,
                  evals, dets, sys0, runs, prev >>

Next == Invoke \/ Proceed \/ RunStep \/ ContinueAnyway

Spec == Init /\ [][Next]_vars

(***************************************************************************)
(* Vocabulary of the properties                                            *)
(***************************************************************************)
Last(q) == q[Len(q)]

Printed(line) == \E n \in 1..Len(out) : out[n] = line

Running == pc \in {"proceed", "exec", "continue"}

\* The invocation got as far as choosing a phase and a pending list.
Selected == phase # ""

Crashed == pc = "exited" /\ Printed("Traceback")

PreTrue(s) == \A n \in 1..Len(pre_steps) : detector(pre_steps[n], s) = "T"

PostTrue(s) == \A n \in 1..Len(post_steps) : detector(post_steps[n], s) = "T"

SomePreFalse(s) == \E n \in 1..Len(pre_steps) : detector(pre_steps[n], s) = "F"

SomePostFalse(s) == \E n \in 1..Len(post_steps) : detector(post_steps[n], s) = "F"

(***************************************************************************)
(* C1  Two-run scenario.  From a fresh container, with every invocation    *)
(* run as root and confirmed and every command succeeding: the first       *)
(* invocation calls the eight pre-reboot steps in registration order and   *)
(* prints the reboot banner; the second invocation selects POST-REBOOT,    *)
(* and when it ends it has applied its pending steps and printed the       *)
(* completion banner.                                                      *)
(***************************************************************************)
C1_TwoRunScenario ==
  /\ (clean /\ runs = 1 /\ pc = "exited")
       => /\ invoked = pre_steps
          /\ Last(out) = "PRE-REBOOT PHASE FINISHED"
  /\ (clean /\ runs = 2)
       => /\ phase = "POST-REBOOT"
          /\ pc = "exited" => /\ invoked = post_steps
                              /\ Last(out) = "SETUP COMPLETE"

(***************************************************************************)
(* C2  When a step has failed and the operator answers no to "Continue     *)
(* anyway?", main returns at once: no further step is called, the only     *)
(* steps called are the pending steps up to the failed one, no final       *)
(* banner is printed, and the system is left as the steps left it.         *)
(***************************************************************************)
C2_DeclineHalts ==
  [][ (pc = "continue" /\ declinedAt' = "Continue anyway?")
        => /\ pc' = "exited"
           /\ Last(out') = "Setup stopped."
           /\ sys' = sys
           /\ invoked' = invoked
           /\ invoked = SubSeq(pending, 1, i)
           /\ \A n \in 1..Len(out') :
                out'[n] \notin {"PRE-REBOOT PHASE FINISHED", "SETUP COMPLETE"} ]_vars

\* A run stopped after a failure with pending steps still to come, after an
\* earlier step had changed the system.
C2_Witness ==
  /\ pc = "exited" /\ declinedAt = "Continue anyway?"
  /\ last.report = "[FAILED]"
  /\ i < Len(pending)
  /\ Len(invoked) >= 2
  /\ sys # sys0

(***************************************************************************)
(* C3  Evaluating the detectors changes nothing, and when the operator     *)
(* declines "Proceed?" no step has been called and every detector sees the *)
(* system as it was when the invocation started.                           *)
(***************************************************************************)
C3_DeclineChangesNothing ==
  /\ pc = "proceed" => sys = sys0 /\ invoked = << >>
  /\ declinedAt = "Proceed?"
       => /\ pc = "exited" /\ Last(out) = "Aborted by user."
          /\ invoked = << >>
          /\ sys = sys0
          /\ \A k \in 1..Len(STEPS) : detector(k, sys) = detector(k, sys0)

\* Declined with a non-empty pending list whose detectors were evaluated.
C3_Witness ==
  /\ pc = "exited" /\ declinedAt = "Proceed?"
  /\ Len(pending) >= 2
  /\ evals # {}
  /\ invoked = << >>

(***************************************************************************)
(* C4  Phase selection.  In an invocation run as root: PRE-REBOOT is       *)
(* selected whenever some pre-reboot detector returns False on the system  *)
(* the invocation started on; POST-REBOOT is selected exactly when every   *)
(* pre-reboot detector returns True and some post-reboot detector returns  *)
(* False; and no post-reboot step is called when some pre-reboot detector  *)
(* returned False.                                                         *)
(***************************************************************************)
C4_PhaseSelection ==
  (pc # "idle" /\ euid0)
    => /\ SomePreFalse(sys0) => phase = "PRE-REBOOT"
       /\ phase = "POST-REBOOT" <=> (PreTrue(sys0) /\ SomePostFalse(sys0))
       /\ SomePreFalse(sys0)
            => \A n \in 1..Len(invoked) : STEPS[invoked[n]].pre_reboot

(***************************************************************************)
(* C5  The pending list is exactly the steps of the selected phase whose   *)
(* detector returns False, in registration order: no step whose detector   *)
(* returns True and no step of the other phase is in it.                   *)
(***************************************************************************)
C5_PendingIsUndetected ==
  Selected
    => /\ \A n \in 1..(Len(pending) - 1) : pending[n] < pending[n + 1]
       /\ { pending[n] : n \in 1..Len(pending) }
            = { k \in 1..Len(STEPS) :
                  /\ STEPS[k].pre_reboot = (phase = "PRE-REBOOT")
                  /\ detector(k, sys0) = "F" }

\* A pending list that leaves out detected steps of the selected phase and
\* holds more than one step.
C5_Witness ==
  /\ pc = "proceed"
  /\ Len(pending) >= 2
  /\ \E k \in 1..Len(STEPS) :
       /\ STEPS[k].pre_reboot = (phase = "PRE-REBOOT")
       /\ detector(k, sys) = "T"
       /\ k < pending[Len(pending)]

(***************************************************************************)
(* C6  The functions called are always the pending steps from the first    *)
(* on, in order and each once; a failed step is not called again after     *)
(* "Continue anyway?" is answered yes: the loop goes on with the next      *)
(* pending step, and a run that reaches its final banner has called every  *)
(* pending step.                                                           *)
(***************************************************************************)
C6_InOrderOnce ==
  /\ Len(invoked) <= Len(pending)
  /\ invoked = SubSeq(pending, 1, Len(invoked))
  /\ \A m, n \in 1..Len(invoked) : m # n => invoked[m] # invoked[n]
  /\ pc = "proceed" => invoked = << >>
  /\ pc = "exec" => i <= Len(pending) /\ Len(invoked) = i - 1
  /\ pc = "continue" => Len(invoked) = i /\ last.report = "[FAILED]"
  /\ (Printed("PRE-REBOOT PHASE FINISHED") \/ Printed("SETUP COMPLETE"))
       => invoked = pending

\* The loop is at a later step after an earlier one failed and the operator
\* chose to continue.
C6_Witness ==
  /\ pc = "exec" /\ i >= 3
  /\ last.report = "[FAILED]"
  /\ Len(invoked) = i - 1

(***************************************************************************)
(* C7 as stated: whenever an external command of a step's function exited  *)
(* non-zero, the step is reported [FAILED]; [COMPLETED] is printed only    *)
(* when no command of the step failed.  For all ten steps.                 *)
(***************************************************************************)
C7_AllFailuresSurfaced == last.failed => last.report = "[FAILED]"

\* The steps whose functions run commands with check=False or inside a
\* try/except: fix_gpg_keys, capture_groups, remove_default_user.
Unchecked ==
  { StepNamed("Fix GPG Keys"), StepNamed("Capture Default Groups"),
    StepNamed("Remove Default ubuntu User") }

(***************************************************************************)
(* C7 amended: for the seven steps other than Fix GPG Keys, Capture        *)
(* Default Groups and Remove Default ubuntu User, a step one of whose      *)
(* commands exited non-zero is reported [FAILED], so [COMPLETED] means     *)
(* that none of its commands failed; and for every step, [FAILED] is       *)
(* followed by the "Continue anyway?" prompt and [COMPLETED] is not.       *)
(***************************************************************************)
C7_CheckedFailuresSurfaced ==
  [][ Len(invoked') > Len(invoked)
        => /\ (last'.failed /\ Last(invoked') \notin Unchecked)
                => last'.report = "[FAILED]"
           /\ last'.report = "[FAILED]" <=> pc' = "continue"
           /\ last'.report \in {"[FAILED]", "[COMPLETED]"} ]_vars

\* A command run with check=True failed in a step, the step was reported
\* [FAILED] and the operator is being asked.
C7_Witness ==
  /\ pc = "continue"
  /\ last.failed /\ last.report = "[FAILED]"
  /\ Last(invoked) \notin Unchecked

(***************************************************************************)
(* C8  A final banner is printed only when its phase is complete: when     *)
(* PRE-REBOOT PHASE FINISHED is printed every pre-reboot detector returns  *)
(* True, and when SETUP COMPLETE is printed every post-reboot detector     *)
(* returns True.                                                           *)
(***************************************************************************)
C8_BannerMeansComplete ==
  /\ Printed("PRE-REBOOT PHASE FINISHED") => PreTrue(sys)
  /\ Printed("SETUP COMPLETE") => PostTrue(sys)

C10_ExitCodes ==
  /\ (pc # "idle" /\ ~euid0)
       => /\ pc = "exited" /\ exitCode = 1
          /\ out = << "This script must be run with sudo." >>
          /\ evals = {} /\ invoked = << >> /\ declinedAt = ""
  /\ (pc = "exited" /\ euid0 /\ ~Printed("Traceback"))
       => /\ exitCode = 0
          /\ Last(out) \in {"All steps already completed!", "Aborted by user.",
                            "Setup stopped.", "PRE-REBOOT PHASE FINISHED",
                            "SETUP COMPLETE"}

\* A second invocation, not as root, on a system with work left, after a
\* first invocation as root that was stopped after a failure.
C10_Witness ==
  /\ pc = "exited" /\ ~euid0 /\ exitCode = 1
  /\ prev.ran /\ Last(prev.out) = "Setup stopped."
  /\ SomePreFalse(sys)

(***************************************************************************)
(* The sequencer on an arbitrary registry outcome.  main does not depend   *)
(* on what the registered detectors inspect, only on what they return:     *)
(* SpecAny starts main once, as root or not, on every assignment of True,  *)
(* False or an exception to the ten detectors.                             *)
(***************************************************************************)
AnyResults == [1..Len(STEPS) -> {"T", "F", "raise"}]

InitAny ==
  /\ sys = CHOOSE s \in InitStates : Fresh(s) /\ s.sudoers = "ubuntu" /\ s.repo = "absent"
  /\ dets \in AnyResults
  /\ pc = "idle"
  /\ euid0 = FALSE
  /\ pre_done = FALSE /\ post_done = FALSE
  /\ pending = << >> /\ phase = ""
  /\ i = 0
  /\ out = << >>
  /\ invoked = << >> /\ last = NoReport
  /\ exitCode = 0
  /\ declinedAt = ""
  /\ evals = {}
  /\ sys0 = sys
  /\ runs = 0
  /\ prev = NoPrev
  /\ clean = FALSE

\* The script is started with detectors that return dets.
InvokeAny ==
  /\ pc = "idle"
  /\ \E root \in BOOLEAN :
       LET f == main_start(dets, root) IN
       /\ euid0' = root
       /\ pc' = f.pc
       /\ exitCode' = f.exitCode
       /\ pre_done' = f.pre_done
       /\ post_done' = f.post_done
       /\ pending' = f.pending
       /\ phase' = f.phase
       /\ out' = f.out
       /\ evals' = f.evals
  /\ runs' = runs + 1
  /\ UNCHANGED << sys, i, invoked, last, declinedAt, dets, sys0, prev, clean >>

SpecAny == InitAny /\ [][InvokeAny]_vars

(***************************************************************************)
(* C11  When every pre-reboot and every post-reboot detector returns True  *)
(* at the start of an invocation as root, main prints "All steps already   *)
(* completed!" and returns with exit code 0: it is never at a prompt, has  *)
(* no pending list and calls no step.                                      *)
(***************************************************************************)
C11_AlreadyCompleted ==
  (pc # "idle" /\ euid0 /\ \A k \in 1..Len(STEPS) : dets[k] = "T")
    => /\ pc = "exited" /\ exitCode = 0
       /\ out = << "All steps already completed!" >>
       /\ pre_done /\ post_done
       /\ pending = << >> /\ invoked = << >> /\ declinedAt = ""

\* main has run as root on detectors that all return True.
C11_Witness ==
  /\ pc = "exited" /\ euid0
  /\ \A k \in 1..Len(STEPS) : dets[k] = "T"
  /\ evals = 1..Len(STEPS)
  /\ Printed("All steps already completed!")

\* With the ten registered steps the message is never printed: the detector
\* registered for Set Hostname is constantly False.
NeverAllCompleted == ~Printed("All steps already completed!")

(***************************************************************************)
(* Repeated invocation.  SpecRestart runs the script again and again, as   *)
(* root, on a container that has the cloud-init sudoers file; the operator *)
(* always confirms and every command of every step succeeds.  The script   *)
(* is always started again once it has exited.                             *)
(***************************************************************************)
InitRestart == Init /\ sys.sudoers # "absent"

\* The script is started as root, any number of times (runs stops counting
\* at MaxRuns).
InvokeAgain ==
  /\ pc \in {"idle", "exited"}
  /\ LET f == main_start(results(sys), TRUE) IN
       /\ euid0' = TRUE
       /\ pc' = f.pc
       /\ exitCode' = f.exitCode
       /\ pre_done' = f.pre_done
       /\ post_done' = f.post_done
       /\ pending' = f.pending
       /\ phase' = f.phase
       /\ out' = f.out
       /\ evals' = f.evals
  /\ i' = 0
  /\ invoked' = << >>
  /\ last' = NoReport
  /\ declinedAt' = ""
  /\ dets' = results(sys)
  /\ sys0' = sys
  /\ runs' = IF runs < MaxRuns THEN runs + 1 ELSE runs
  /\ prev' = IF pc = "exited"
             THEN [ran |-> TRUE, phase |-> phase, pending |-> pending, out |-> out]
             ELSE NoPrev
  /\ UNCHANGED << sys, clean >>

\* confirm("Proceed?") answered yes.
ProceedYes == Proceed /\ declinedAt' = ""

\* A step all of whose commands succeed.
RunStepOk == RunStep /\ last'.report = "[COMPLETED]" /\ ~last'.failed

NextRestart == InvokeAgain \/ ProceedYes \/ RunStepOk

SpecRestart == InitRestart /\ [][NextRestart]_vars /\ WF_vars(NextRestart)

(***************************************************************************)
(* C12  Under repeated invocation with every prompt confirmed and every    *)
(* step succeeding, some invocation eventually prints "All steps already   *)
(* completed!".                                                            *)
(***************************************************************************)
C12_EventuallyAllCompleted == <>Printed("All steps already completed!")

(***************************************************************************)
(* C13  Phase progress is monotone: no step's action turns the detector of *)
(* a pre-reboot step from True to False, so that once the post-reboot      *)
(* steps have been applied no later invocation selects PRE-REBOOT again.   *)
(***************************************************************************)
C13_PreDetectorsStayTrue ==
  [][ \A n \in 1..Len(pre_steps) :
        detector(pre_steps[n], sys) = "T" => detector(pre_steps[n], sys') = "T" ]_vars

(***************************************************************************)
(* C14  Detector evaluation is total: in every system state reached from   *)
(* any initial combination of the files by the step actions, every         *)
(* registered detector returns a boolean, and main never ends with an      *)
(* unhandled exception.                                                    *)
(***************************************************************************)
C14_DetectorsTotal ==
  /\ \A k \in 1..Len(STEPS) : detector(k, sys) \in {"T", "F"}
  /\ ~Printed("Traceback")

(***************************************************************************)
(* C15 as stated: in an invocation in which some pre-reboot detector       *)
(* returns False, no post-reboot detector is evaluated.                    *)
(***************************************************************************)
C15_PostOnlyAfterPre ==
  (pc # "idle" /\ euid0 /\ SomePreFalse(sys0))
    => \A n \in 1..Len(post_steps) : post_steps[n] \notin evals

(***************************************************************************)
(* C15 amended: the post-reboot detectors are evaluated for the completion *)
(* check whatever the pre-reboot detectors returned.  In an invocation     *)
(* that selects PRE-REBOOT the detector of the first post-reboot step has  *)
(* been evaluated, and that of each later post-reboot step exactly when    *)
(* all post-reboot detectors before it returned True; the pending list     *)
(* holds pre-reboot steps only.                                            *)
(***************************************************************************)
C15_PostEvaluatedRegardless ==
  (Selected /\ phase = "PRE-REBOOT")
    => /\ post_steps[1] \in evals
       /\ \A n \in 2..Len(post_steps) :
            post_steps[n] \in evals
              <=> \A m \in 1..(n - 1) : dets[post_steps[m]] = "T"
       /\ \A n \in 1..Len(pending) : STEPS[pending[n]].pre_reboot

\* PRE-REBOOT was selected because a pre-reboot detector returned False, and
\* both post-reboot detectors were evaluated.
C15_Witness ==
  /\ pc = "proceed" /\ phase = "PRE-REBOOT"
  /\ SomePreFalse(sys)
  /\ \A n \in 1..Len(post_steps) : post_steps[n] \in evals

(***************************************************************************)
(* C16  Whenever main is about to call apply_user_groups, the              *)
(* update-groups script exists, and a failed Apply User Groups step is     *)
(* never the "script missing" RuntimeError: one of its commands failed.    *)
(***************************************************************************)
C16_ScriptPresentWhenApplied ==
  /\ (pc = "exec" /\ pending[i] = StepNamed("Apply User Groups")) => sys.script
  /\ (invoked # << >> /\ Last(invoked) = StepNamed("Apply User Groups")
        /\ last.report = "[FAILED]")
       => last.failed

\* The loop is about to call apply_user_groups in the post-reboot phase.
C16_Witness ==
  /\ pc = "exec" /\ phase = "POST-REBOOT"
  /\ pending[i] = StepNamed("Apply User Groups")
  /\ sys.script

====
